---- MODULE Spec2Model ----
(***************************************************************************)
(* Model of packages/services/examples/typescript-browser-with-output/     *)
(* main.py: the ExampleApp server extension.                               *)
(*                                                                         *)
(* URLs and regular expressions are sequences of tokens ("/", "example",   *)
(* "a.js", ...); file-system paths are sequences of path segments.  The    *)
(* host framework (tornado + notebook / jupyter_server) is modelled only   *)
(* as far as main.py calls into it: route matching, add_handlers,          *)
(* render_template / write, FileFindHandler and the default error          *)
(* response.                                                               *)
(***************************************************************************)
EXTENDS Naturals, Sequences, FiniteSets, TLC

VARIABLES
    pc,           \* index of the next statement of ExampleApp.start to run
    running,      \* TRUE while the base application's start (the IO loop) runs
    baseStarts,   \* how many times the base start has been entered
    routes,       \* web_app's route table, in matching order
    default_url,  \* ExampleApp.default_url
    settings,     \* web_app.settings: a function from the keys present to values
    files,        \* the file system: path -> bytes, or NoFile
    escapeStatus, \* the status the installed FileFindHandler refuses an escaping path with
    seen          \* the responses produced so far (history)

vars == <<pc, running, baseStarts, routes, default_url, settings, files,
          escapeStatus, seen>>

\* The number of distinct request/response pairs a behaviour records.
MaxRequests == 2

----------------------------------------------------------------------------
(* Paths on disk *)

NoFile == "<no file>"

\* HERE = os.path.dirname(__file__)
HERE == <<"here">>

\* os.path.join(a, b)
PathJoin(dir, name) == dir \o <<name>>

\* os.path.join(HERE, 'build')
BuildDir == PathJoin(HERE, "build")

\* the files this example can find on disk; main.py itself always exists
IndexHtml == PathJoin(HERE, "index.html")
MainPy == PathJoin(HERE, "main.py")
BuildAJs == PathJoin(BuildDir, "a.js")
HereAJs == PathJoin(HERE, "a.js")
DiskPaths == {IndexHtml, MainPy, BuildAJs, HereAJs}

IsFile(fs, p) == p \in DOMAIN fs /\ fs[p] # NoFile

\* the file system holding idx as index.html, bjs as build/a.js and hjs as a.js
MakeFiles(idx, bjs, hjs) ==
    [p \in DiskPaths |->
        IF p = IndexHtml THEN idx
        ELSE IF p = MainPy THEN "main.py bytes"
        ELSE IF p = BuildAJs THEN bjs
        ELSE hjs]

\* what each of these files may hold
IndexHtmlBytes == <<"index.html bytes", NoFile>>
BuildAJsBytes == <<"bundle v1", "bundle v2", NoFile>>
HereAJsBytes == <<NoFile, "stray a.js">>

----------------------------------------------------------------------------
(* URLs *)

RootUrl == <<"/", "example">>
BaseUrls == { <<"/">>, <<"/", "prefix", "/">> }
Tokens == {"t1", "t2"}
Credentials == {"anonymous", "logged-in"}

\* url_path_join of the host framework: exactly one "/" between the pieces
UrlPathJoin(a, b) ==
    IF a # <<>> /\ b # <<>> /\ a[Len(a)] = "/" /\ Head(b) = "/"
    THEN a \o Tail(b)
    ELSE a \o b

----------------------------------------------------------------------------
(* Route patterns and tornado's matching of them *)

\* r'/example/?'
RootPattern == <<"/", "example", "/?">>

\* r"/example/(.*)"
WildcardPattern == <<"/", "example", "/", "(.*)">>

\* a pattern is matched against the whole request path (tornado anchors it at
\* both ends); "/?" is an optional slash and "(.*)" any remainder
RECURSIVE Matches(_, _)
Matches(pat, url) ==
    IF pat = <<>> THEN url = <<>>
    ELSE IF Head(pat) = "(.*)"
         THEN \E k \in 0..Len(url) : Matches(Tail(pat), SubSeq(url, k + 1, Len(url)))
    ELSE IF Head(pat) = "/?"
         THEN \/ Matches(Tail(pat), url)
              \/ url # <<>> /\ Head(url) = "/" /\ Matches(Tail(pat), Tail(url))
    ELSE url # <<>> /\ Head(url) = Head(pat) /\ Matches(Tail(pat), Tail(url))

\* the text captured by a trailing "(.*)" group, handed to the handler's get
Capture(pat, url) ==
    IF pat # <<>> /\ pat[Len(pat)] = "(.*)"
    THEN SubSeq(url, Len(pat), Len(url))
    ELSE <<>>

\* handlers with the static route bound to HERE instead of HERE/build
handlers_here ==
    << [pattern |-> RootPattern, handler |-> "ExampleHander", path |-> <<>>],
       [pattern |-> WildcardPattern, handler |-> "FileFindHandler", path |-> HERE] >>

\* handlers with every sub-path falling back to the page
handlers_fallback ==
    << [pattern |-> RootPattern, handler |-> "ExampleHander", path |-> <<>>],
       [pattern |-> WildcardPattern, handler |-> "ExampleHander", path |-> <<>>] >>

\* handlers with the two rules in the other order
handlers_swapped ==
    << [pattern |-> WildcardPattern, handler |-> "FileFindHandler", path |-> BuildDir],
       [pattern |-> RootPattern, handler |-> "ExampleHander", path |-> <<>>] >>

\* handlers with a third rule
handlers_extra ==
    << [pattern |-> RootPattern, handler |-> "ExampleHander", path |-> <<>>],
       [pattern |-> WildcardPattern, handler |-> "FileFindHandler", path |-> BuildDir],
       [pattern |-> <<"/", "static", "/", "(.*)">>, handler |-> "FileFindHandler",
        path |-> BuildDir] >>

\* the list built in ExampleApp.start; path is the FileFindHandler's 'path'
\* argument (<<>> for a rule without arguments)
handlers ==
    << [pattern |-> RootPattern, handler |-> "ExampleHander", path |-> <<>>],
       [pattern |-> WildcardPattern, handler |-> "FileFindHandler", path |-> BuildDir] >>

\* the routes the base application holds before start: its own handlers live
\* under the base URL and end with a catch-all not-found page
HostRoutes(base) ==
    << [pattern |-> base \o <<"(.*)">>, handler |-> "Template404", path |-> <<>>] >>

\* web_app.add_handlers(".*$", handlers): the new rules are matched ahead of
\* the rules the application was constructed with, in the order given
add_handlers(table, hs) == hs \o table

MatchingRules(table, url) == { i \in 1..Len(table) : Matches(table[i].pattern, url) }

\* the first rule, in table order, whose pattern matches the path
Dispatch(table, url) ==
    LET m == MatchingRules(table, url) IN
    IF m = {} THEN [handler |-> "none", args |-> <<>>, path |-> <<>>]
    ELSE LET i == CHOOSE j \in m : \A k \in m : j <= k IN
         [handler |-> table[i].handler,
          args |-> Capture(table[i].pattern, url),
          path |-> table[i].path]

----------------------------------------------------------------------------
(* Settings and templates *)

Keys == {"token", "jinja2_env", "base_url"}

\* web_app.settings with the token t and the base URL b; the keys in `missing`
\* are absent
MakeSettings(t, b, missing) ==
    [k \in Keys \ missing |->
        IF k = "token" THEN <<t>>
        ELSE IF k = "base_url" THEN b
        ELSE <<"jinja2 environment">>]

\* the ways the settings can fall short of what get reads
MissingKeys == << {}, {"token"}, {"jinja2_env"}, {"token", "jinja2_env"} >>

\* JupyterHandler.base_url: settings.get('base_url', '/')
base_url(st) == IF "base_url" \in DOMAIN st THEN st["base_url"] ELSE <<"/">>

\* JupyterHandler.static_url, passed to the template as `static`
static_url == <<"static_url">>

\* index.html once parsed: literal text and the variables it prints
IndexTemplate ==
    << [var |-> FALSE, text |-> "<html>"],
       [var |-> TRUE, text |-> "static"],
       [var |-> FALSE, text |-> "baseUrl:"],
       [var |-> TRUE, text |-> "base_url"],
       [var |-> FALSE, text |-> "token:"],
       [var |-> TRUE, text |-> "token"],
       [var |-> FALSE, text |-> "</html>"] >>

\* the outcome of a call: what it raised ("" when it returned) and its value
Returned(v) == [raised |-> "", value |-> v]
Raised(e) == [raised |-> e, value |-> <<>>]

\* LOADER = FileSystemLoader(HERE); LOADER.load(env, name) reads HERE/name
LOADER_load(fs, env, name) ==
    IF IsFile(fs, PathJoin(HERE, name))
    THEN Returned(IndexTemplate)
    ELSE Raised("TemplateNotFound")

\* ExampleHander.get_template
get_template(st, fs, name) ==
    IF "jinja2_env" \notin DOMAIN st
    THEN Raised("KeyError: jinja2_env")
    ELSE LOADER_load(fs, st["jinja2_env"], name)

\* template.render(**ns): every variable is replaced by its value in ns
Render(t, ns) ==
    [i \in 1..Len(t) |-> IF t[i].var THEN ns[t[i].text] ELSE <<t[i].text>>]

\* JupyterHandler.render_template(name, **ns), which asks self.get_template
render_template(st, fs, name, ns) ==
    LET t == get_template(st, fs, name) IN
    IF t.raised # "" THEN t ELSE Returned(Render(t.value, ns))

----------------------------------------------------------------------------
(* The handlers *)

\* what a handler leaves for the client.  attempts counts the executions of
\* the statement that renders the page; body is what was written
Response(h, status, body, raised, attempts) ==
    [handler |-> h, status |-> status, body |-> body, raised |-> raised,
     attempts |-> attempts]

\* the host framework's answer to an exception no handler caught
Unhandled(h, e, attempts) == Response(h, 500, <<>>, e, attempts)

\* get with the token and the base URL passed under each other's name
ExampleHander_get_swapped(st, fs, cred) ==
    IF "token" \notin DOMAIN st
    THEN Unhandled("ExampleHander", "KeyError: token", 1)
    ELSE LET html == render_template(st, fs, "index.html",
                         [static |-> static_url,
                          base_url |-> st["token"],
                          token |-> base_url(st)])
         IN IF html.raised # ""
            THEN Unhandled("ExampleHander", html.raised, 1)
            ELSE Response("ExampleHander", 200, html.value, "", 1)

\* get reading the token with settings.get('token', ''): a fallback value
ExampleHander_get_fallback(st, fs, cred) ==
    LET html == render_template(st, fs, "index.html",
                    [static |-> static_url,
                     base_url |-> base_url(st),
                     token |-> IF "token" \in DOMAIN st THEN st["token"] ELSE <<"">>])
    IN IF html.raised # ""
       THEN Unhandled("ExampleHander", html.raised, 1)
       ELSE Response("ExampleHander", 200, html.value, "", 1)

\* get handing out the token to the first request only
ExampleHander_get_once(st, fs, cred) ==
    IF "token" \notin DOMAIN st
    THEN Unhandled("ExampleHander", "KeyError: token", 1)
    ELSE LET html == render_template(st, fs, "index.html",
                         [static |-> static_url,
                          base_url |-> base_url(st),
                          token |-> IF seen = {} THEN st["token"] ELSE <<"">>])
         IN IF html.raised # ""
            THEN Unhandled("ExampleHander", html.raised, 1)
            ELSE Response("ExampleHander", 200, html.value, "", 1)

\* get that checks the requester's credentials first (web.authenticated)
ExampleHander_get_authenticated(st, fs, cred) ==
    IF cred = "anonymous"
    THEN Response("ExampleHander", 403, <<>>, "", 0)
    ELSE IF "token" \notin DOMAIN st
    THEN Unhandled("ExampleHander", "KeyError: token", 1)
    ELSE LET html == render_template(st, fs, "index.html",
                         [static |-> static_url,
                          base_url |-> base_url(st),
                          token |-> st["token"]])
         IN IF html.raised # ""
            THEN Unhandled("ExampleHander", html.raised, 1)
            ELSE Response("ExampleHander", 200, html.value, "", 1)

\* ExampleHander.get: the keyword arguments are evaluated, then
\* render_template is called, then write
ExampleHander_get(st, fs, cred) ==
    IF "token" \notin DOMAIN st
    THEN Unhandled("ExampleHander", "KeyError: token", 1)
    ELSE LET html == render_template(st, fs, "index.html",
                         [static |-> static_url,
                          base_url |-> base_url(st),
                          token |-> st["token"]])
         IN IF html.raised # ""
            THEN Unhandled("ExampleHander", html.raised, 1)
            ELSE Response("ExampleHander", 200, html.value, "", 1)

\* the path segments of a URL remainder
Segments(rest) == SelectSeq(rest, LAMBDA x : x # "/")

\* os.path.abspath: ".." climbs to the parent directory
RECURSIVE Normalize(_, _)
Normalize(segs, acc) ==
    IF segs = <<>> THEN acc
    ELSE IF Head(segs) = ".."
         THEN Normalize(Tail(segs), IF acc = <<>> THEN acc ELSE SubSeq(acc, 1, Len(acc) - 1))
    ELSE Normalize(Tail(segs), Append(acc, Head(segs)))

IsUnder(root, p) == Len(p) >= Len(root) /\ SubSeq(p, 1, Len(root)) = root

\* FileFindHandler.get(rest) with path=root: the remainder is looked up under
\* root; no such file is a 404, a file outside root is refused with esc
FileFindHandler_get(fs, root, rest, esc) ==
    LET abs == Normalize(root \o Segments(rest), <<>>) IN
    IF ~IsFile(fs, abs) THEN Response("FileFindHandler", 404, <<>>, "", 0)
    ELSE IF ~IsUnder(root, abs) THEN Response("FileFindHandler", esc, <<>>, "", 0)
    ELSE Response("FileFindHandler", 200, << <<fs[abs]>> >>, "", 0)

\* one GET: the route table picks the handler, the handler answers
Respond(table, st, fs, esc, url, cred) ==
    LET d == Dispatch(table, url) IN
    IF d.handler = "ExampleHander" THEN ExampleHander_get(st, fs, cred)
    ELSE IF d.handler = "FileFindHandler" THEN FileFindHandler_get(fs, d.path, d.args, esc)
    ELSE Response(d.handler, 404, <<>>, "", 0)

----------------------------------------------------------------------------
(* The application *)

\* start deferring to the base start before it registers its routes
StartBody_super_first == <<"super_start", "add_handlers">>

\* the statements of ExampleApp.start, in program order
StartBody == <<"add_handlers", "super_start">>

\* the request paths tried: the root with and without a slash, a file of the
\* build directory, a path climbing out of it, a path that only starts like
\* the root, and the landing URL under every base URL
RequestUrls ==
    { RootUrl,
      RootUrl \o <<"/">>,
      RootUrl \o <<"/", "a.js">>,
      RootUrl \o <<"/", "..", "/", "main.py">>,
      RootUrl \o <<"foo">> }
    \cup { UrlPathJoin(b, RootUrl) : b \in BaseUrls }

Init ==
    /\ pc = 1
    /\ running = FALSE
    /\ baseStarts = 0
    /\ \E i \in 1..Len(MissingKeys), t \in Tokens, b \in BaseUrls :
          settings = MakeSettings(t, b, MissingKeys[i])
    /\ routes = HostRoutes(base_url(settings))
    /\ default_url = RootUrl
    /\ \E i \in 1..Len(IndexHtmlBytes), j \in 1..Len(BuildAJsBytes),
          k \in 1..Len(HereAJsBytes) :
          files = MakeFiles(IndexHtmlBytes[i], BuildAJsBytes[j], HereAJsBytes[k])
    /\ escapeStatus \in {403, 404}
    /\ seen = {}

\* start, first statement: handlers = [...]; self.web_app.add_handlers(".*$", handlers)
StartAddHandlers ==
    /\ pc <= Len(StartBody)
    /\ StartBody[pc] = "add_handlers"
    /\ ~running
    /\ routes' = add_handlers(routes, handlers)
    /\ pc' = pc + 1
    /\ UNCHANGED <<running, baseStarts, default_url, settings, files, escapeStatus, seen>>

\* start, second statement: super(ExampleApp, self).start() enters the base
\* application's start, which serves requests until it is stopped
StartSuper ==
    /\ pc <= Len(StartBody)
    /\ StartBody[pc] = "super_start"
    /\ ~running
    /\ running' = TRUE
    /\ baseStarts' = baseStarts + 1
    /\ UNCHANGED <<pc, routes, default_url, settings, files, escapeStatus, seen>>

\* the base start returns (the server is shut down) and start goes on
Stop ==
    /\ running
    /\ running' = FALSE
    /\ pc' = pc + 1
    /\ UNCHANGED <<baseStarts, routes, default_url, settings, files, escapeStatus, seen>>

\* a GET arrives while the server runs and is answered
HandleGet(url, cred) ==
    /\ running
    /\ Cardinality(seen) < MaxRequests
    /\ seen' = seen \cup
         { [path |-> url, cred |-> cred,
            resp |-> Respond(routes, settings, files, escapeStatus, url, cred)] }
    /\ UNCHANGED <<pc, running, baseStarts, routes, default_url, settings, files,
                   escapeStatus>>

Next ==
    \/ StartAddHandlers
    \/ StartSuper
    \/ Stop
    \/ \E url \in RequestUrls, cred \in Credentials : HandleGet(url, cred)

Spec == Init /\ [][Next]_vars

----------------------------------------------------------------------------
(* Properties *)

\* the two spellings of the root path
RootPaths == { RootUrl, RootUrl \o <<"/">> }

\* the page can be rendered: both settings keys and the template are there
PageReady ==
    /\ {"token", "jinja2_env"} \subseteq DOMAIN settings
    /\ IsFile(files, IndexHtml)

\* url is /example/<name> for a single file name
IsFileUrl(url) ==
    /\ Len(url) = 4
    /\ SubSeq(url, 1, 3) = RootUrl \o <<"/">>
    /\ url[4] \notin {"/", ".."}

\* url is /example/<rest>, and its <rest>
IsSubPath(url) == Len(url) >= 3 /\ SubSeq(url, 1, 3) = RootUrl \o <<"/">>
RestOf(url) == SubSeq(url, 4, Len(url))

\* the two rules start registers, written out
PageRule == [pattern |-> <<"/", "example", "/?">>, handler |-> "ExampleHander",
             path |-> <<>>]
StaticRule == [pattern |-> <<"/", "example", "/", "(.*)">>,
               handler |-> "FileFindHandler", path |-> <<"here", "build">>]

\* C1: once the routes are registered, a GET on the root path, with the
\* template and both settings keys present, is answered by the Page Handler
\* with status 200 and index.html rendered with the token and the base URL
\* of the settings, whatever these two values are.
C1_RootPageShowsSettings ==
    \A r \in seen :
        (r.path \in RootPaths /\ PageReady) =>
            /\ r.resp.handler = "ExampleHander"
            /\ r.resp.status = 200
            /\ Len(r.resp.body) = Len(IndexTemplate)
            /\ \A i \in 1..Len(IndexTemplate) :
                 /\ (IndexTemplate[i].var /\ IndexTemplate[i].text = "token")
                       => r.resp.body[i] = settings["token"]
                 /\ (IndexTemplate[i].var /\ IndexTemplate[i].text = "base_url")
                       => r.resp.body[i] = base_url(settings)
                 /\ ~IndexTemplate[i].var => r.resp.body[i] = <<IndexTemplate[i].text>>

C1_Witness ==
    \E r \in seen :
        /\ r.path = RootUrl
        /\ r.resp.status = 200
        /\ "token" \in DOMAIN settings /\ settings["token"] = <<"t2">>
        /\ base_url(settings) = <<"/", "prefix", "/">>
        /\ <<"t2">> \in { r.resp.body[i] : i \in 1..Len(r.resp.body) }

\* C2: a GET on /example/<name>, where <name> is a file of the build
\* directory next to main.py, returns 200 and exactly that file's bytes, also
\* when a file of the same name lies in another directory.
C2_StaticFileServed ==
    \A r \in seen :
        (IsFileUrl(r.path) /\ IsFile(files, <<"here", "build", r.path[4]>>)) =>
            /\ r.resp.handler = "FileFindHandler"
            /\ r.resp.status = 200
            /\ r.resp.body = << <<files[<<"here", "build", r.path[4]>>]>> >>

C2_Witness ==
    \E r \in seen :
        /\ IsFileUrl(r.path)
        /\ r.resp.status = 200
        /\ r.resp.body = << <<"bundle v2">> >>
        /\ IsFile(files, HereAJs)

\* C3 as claimed: every GET on /example/<rest> where no file <rest> exists
\* under the static directory returns 404.
C3_Original ==
    \A r \in seen :
        (/\ IsSubPath(r.path)
         /\ LET p == Normalize(<<"here", "build">> \o Segments(RestOf(r.path)), <<>>)
            IN ~(IsUnder(<<"here", "build">>, p) /\ IsFile(files, p)))
        => r.resp.status = 404

\* C3 as amended: a GET on /example/<name>, with <name> a non-empty file name
\* that is not a file of the static directory, returns 404 from the Static
\* File Handler, also when a file of that name lies next to main.py.
C3_MissingFileIs404 ==
    \A r \in seen :
        (IsFileUrl(r.path) /\ ~IsFile(files, <<"here", "build", r.path[4]>>)) =>
            /\ r.resp.handler = "FileFindHandler"
            /\ r.resp.status = 404
            /\ r.resp.body = <<>>

C3_Witness ==
    \E r \in seen :
        /\ IsFileUrl(r.path)
        /\ r.resp.status = 404
        /\ IsFile(files, HereAJs)
        /\ PageReady

\* C4: start adds exactly the page rule and the static rule (bound to
\* HERE/build), ahead of the rules the application already had and without
\* touching those; the default landing URL is /example.
C4_StartAddsTwoRoutes ==
    /\ default_url = <<"/", "example">>
    /\ routes \in { HostRoutes(base_url(settings)),
                    <<PageRule, StaticRule>> \o HostRoutes(base_url(settings)) }
    /\ (running \/ pc > Len(StartBody)) =>
          routes = <<PageRule, StaticRule>> \o HostRoutes(base_url(settings))

C4_Witness ==
    /\ pc > Len(StartBody)
    /\ Len(routes) = 3
    /\ routes[1] = PageRule /\ routes[2] = StaticRule

\* C5: when the base start is entered both example routes are already in the
\* route table, no request is answered before that, and the base start is
\* entered exactly once per call of start.
C5_RoutesBeforeBaseStart ==
    /\ baseStarts <= 1
    /\ (running \/ seen # {}) =>
          /\ baseStarts = 1
          /\ \E i, j \in 1..Len(routes) : routes[i] = PageRule /\ routes[j] = StaticRule
    /\ pc > Len(StartBody) => baseStarts = 1

C5_Witness ==
    /\ running
    /\ baseStarts = 1
    /\ seen # {}

C8_FirstMatchDispatch ==
    /\ running =>
         \A url \in RequestUrls :
            LET d == Dispatch(routes, url) IN
            /\ url \in RootPaths => d.handler = "ExampleHander"
            /\ (IsSubPath(url) /\ RestOf(url) # <<>>) =>
                  d.handler = "FileFindHandler" /\ d.args = RestOf(url)
            /\ url = <<"/", "example", "foo">> =>
                  d.handler \notin {"ExampleHander", "FileFindHandler"}
    /\ \A r \in seen :
         /\ r.path \in RootPaths => r.resp.handler = "ExampleHander"
         /\ (IsSubPath(r.path) /\ RestOf(r.path) # <<>>) => r.resp.handler = "FileFindHandler"
         /\ r.path = <<"/", "example", "foo">> =>
               r.resp.handler \notin {"ExampleHander", "FileFindHandler"}

C8_Witness ==
    /\ \E r \in seen : r.path = RootUrl \o <<"/">> /\ r.resp.handler = "ExampleHander"
    /\ \E r \in seen : r.path = <<"/", "example", "foo">> /\ r.resp.handler = "none"

\* C9 as claimed: under every base URL, once the server runs, the default
\* landing URL (the base URL joined with default_url) is dispatched to the
\* Page Handler.
C9_LandingReachesPage ==
    running =>
        Dispatch(routes, UrlPathJoin(base_url(settings), default_url)).handler
            = "ExampleHander"

\* C10: two GETs on the root path that differ only in the requester's
\* credentials get the same response, and a rendered page holds the token.
C10_NoCredentialCheck ==
    \A r1, r2 \in seen :
        (r1.path \in RootPaths /\ r2.path = r1.path /\ r1.cred # r2.cred) =>
            /\ r1.resp = r2.resp
            /\ r1.resp.status = 200 =>
                 settings["token"] \in { r1.resp.body[i] : i \in 1..Len(r1.resp.body) }

C10_Witness ==
    \E r1, r2 \in seen :
        /\ r1.path = RootUrl /\ r2.path = RootUrl
        /\ r1.cred = "anonymous" /\ r2.cred = "logged-in"
        /\ r1.resp.status = 200 /\ r2.resp.status = 200

====
